---- MODULE Spec2Model ----
(***************************************************************************)
(* The message translation layer of azure-service-bus-go (message.go, kept *)
(* in src/errors.go from line 60 on): the Message entity, its outbound and *)
(* inbound translation to and from the AMQP wire message, the lock-token   *)
(* codec, the tag-driven structure projector, the text-map carrier         *)
(* (Set / ForeachKey) and the disposition actions.                         *)
(*                                                                         *)
(* Conventions.  A Go pointer or nilable value is an option: None (nil) or *)
(* Some(v).  A Go map is an option of a function: None is the nil map.  A  *)
(* Go interface{} value is a record [t, v, loc]: its dynamic type, its     *)
(* text, and (for a time.Time) its location.  A Go string that the code    *)
(* takes apart (a struct tag) is a sequence of tokens: words, "," and " ". *)
(* A uint32 is a pair of 16-bit halves, so that its wrap-around at 2^32 is *)
(* kept.  Wire messages live in a heap with two addresses: "sent", where   *)
(* toMsg allocates, and "delivered", where the transport puts the message  *)
(* it hands over; a *amqp.Message is an option of an address.  A call that *)
(* panics ends with outcome "panic": nothing is returned to the caller.    *)
(***************************************************************************)
EXTENDS Integers, Sequences, FiniteSets, TLC

VARIABLES
    wires,      \* the heap of wire messages (amqp.Message values)
    app,        \* the *Message built by the application (NewMessage), or None
    out,        \* what the last toMsg on app returned, or None
    rcv,        \* what the last inbound translation returned, or None
    codec,      \* what the last direct lockTokenFromMessageTag call returned, or None
    actions,    \* the DispositionAction closures constructed so far
    settled,    \* the settlement calls the transport has received, in order
    invoked,    \* what the last invocation of a DispositionAction did, or None
    structIn,   \* the structure the caller gives to encodeStructureToMap, or None
    encoded,    \* what the last encodeStructureToMap call returned, or None
    walk        \* what the last ForeachKey call did, or None

vars == <<wires, app, out, rcv, codec, actions, settled, invoked, structIn, encoded, walk>>

----------------------------------------------------------------------------
(* Options, maps, values *)

None == <<>>
Some(v) == <<v>>
IsNil(p) == p = None
Deref(p) == p[1]

EmptyMap == [k \in {} |-> k]
MapPut(f, k, v) == [y \in (DOMAIN f) \cup {k} |-> IF y = k THEN v ELSE f[y]]
\* len(m) of a Go map: 0 for the nil map
MapLen(m) == IF IsNil(m) THEN 0 ELSE Cardinality(DOMAIN Deref(m))

Value(t, v) == [t |-> t, v |-> v, loc |-> ""]
StringValue(s) == Value("string", s)
NilValue == Value("nil", "")
TimeValue(instant, loc) == [t |-> "time", v |-> instant, loc |-> loc]
\* time.Time.UTC(): the same instant, location UTC
UTC(t) == [t EXCEPT !.loc = "UTC"]

\* uint32 as two 16-bit halves
Half == 2^16
U32(hi, lo) == [hi |-> hi, lo |-> lo]
U32Zero == U32(0, 0)
U32Max == U32(Half - 1, Half - 1)
\* x + 1 in uint32 arithmetic (wraps at 2^32)
U32Inc(x) ==
    LET lo == x.lo + 1
        carry == lo \div Half
    IN  U32((x.hi + carry) % Half, lo % Half)

----------------------------------------------------------------------------
(* Tag Parser: parseMapStructureTag *)

\* strings.Split(s, ","): the segments between the "," tokens
RECURSIVE SplitFrom(_, _, _)
SplitFrom(s, i, cur) ==
    IF i > Len(s) THEN <<cur>>
    ELSE IF s[i] = "," THEN <<cur>> \o SplitFrom(s, i + 1, <<>>)
    ELSE SplitFrom(s, i + 1, Append(cur, s[i]))
Split(s) == SplitFrom(s, 1, <<>>)

\* strings.TrimSpace: drop the leading and the trailing " " tokens
RECURSIVE TrimLeft(_)
TrimLeft(s) == IF Len(s) > 0 /\ s[1] = " " THEN TrimLeft(Tail(s)) ELSE s
RECURSIVE TrimRight(_)
TrimRight(s) ==
    IF Len(s) > 0 /\ s[Len(s)] = " " THEN TrimRight(SubSeq(s, 1, Len(s) - 1)) ELSE s
TrimSpace(s) == TrimRight(TrimLeft(s))

\* the loop over split[1:]: the first key that is not "persistempty" is an error
RECURSIVE TagOptions(_, _, _)
TagOptions(split, i, persist) ==
    IF i > Len(split) THEN [err |-> "", PersistEmpty |-> persist]
    ELSE IF split[i] = <<"persistempty">> THEN TagOptions(split, i + 1, TRUE)
    ELSE [err |-> "key is not understood", PersistEmpty |-> persist]

\* tag: the value of the field's `mapstructure` key, None when it has none.
\* The result: err, and tag = None (nil, nil) or Some([Name, PersistEmpty]).
parseMapStructureTag(tag) ==
    IF IsNil(tag) THEN [err |-> "", tag |-> None]
    ELSE LET split == Split(Deref(tag))
             opts == TagOptions(split, 2, FALSE)
         IN  IF opts.err # "" THEN [err |-> opts.err, tag |-> None]
             ELSE [err |-> "",
                   tag |-> Some([Name |-> TrimSpace(split[1]),
                                 PersistEmpty |-> opts.PersistEmpty])]

----------------------------------------------------------------------------
(* Structure Projector: encodeStructureToMap *)

\* A structure field as reflection sees it: its mapstructure tag, whether it is
\* exported (CanSet), its kind, and its value (for kind "ptr": None or the pointee).
Field(tag, exported, kind, val) ==
    [tag |-> tag, exported |-> exported, kind |-> kind, val |-> val]

\* reflect.Zero(f.Type()).Interface() of a plain field
ZeroOfAnyKindEmpty(kind) == Value(kind, "")
ZeroOf(kind) == Value(kind, IF kind = "int" THEN "0" ELSE "")
\* interface comparison panics when the dynamic type is not comparable
Comparable(kind) == kind # "slice"

\* one iteration of the loop over the fields; acc is [outcome, err, encoded]
EncodeField(acc, f) ==
    IF ~f.exported THEN acc
    ELSE LET parsed == parseMapStructureTag(f.tag) IN
         IF parsed.err # "" THEN [outcome |-> "error", err |-> parsed.err, encoded |-> None]
         ELSE IF IsNil(parsed.tag) THEN acc
         ELSE LET tag == Deref(parsed.tag) IN
              IF f.kind = "ptr"
              THEN IF ~IsNil(f.val) \/ tag.PersistEmpty
                   THEN IF IsNil(f.val)
                        THEN [acc EXCEPT !.encoded = MapPut(@, tag.Name, NilValue)]
                        ELSE [acc EXCEPT !.encoded = MapPut(@, tag.Name, Deref(f.val))]
                   ELSE acc
              ELSE IF ~Comparable(f.kind)
                   THEN [outcome |-> "panic", err |-> "", encoded |-> None]
                   ELSE IF Deref(f.val) # ZeroOf(f.kind) \/ tag.PersistEmpty
                        THEN [acc EXCEPT !.encoded = MapPut(@, tag.Name, Deref(f.val))]
                        ELSE acc

RECURSIVE EncodeFields(_, _, _)
EncodeFields(fields, i, acc) ==
    IF i > Len(fields) \/ acc.outcome # "ok" THEN acc
    ELSE EncodeFields(fields, i + 1, EncodeField(acc, fields[i]))

\* The result: outcome "ok" with encoded = Some(map), or "error" / "panic" with None.
\* structPointer: [kind, fields]; kind "ptrStruct" (a pointer to a structure),
\* "ptrOther" (a pointer to something else) or "value" (not a pointer: Elem panics).
encodeStructureToMap(structPointer) ==
    IF structPointer.kind = "value" THEN [outcome |-> "panic", err |-> "", encoded |-> None]
    ELSE IF structPointer.kind # "ptrStruct"
    THEN [outcome |-> "error", err |-> "must provide a struct", encoded |-> None]
    ELSE LET acc == EncodeFields(structPointer.fields, 1,
                                 [outcome |-> "ok", err |-> "", encoded |-> EmptyMap])
         IN  IF acc.outcome = "ok" THEN [acc EXCEPT !.encoded = Some(@)] ELSE acc

----------------------------------------------------------------------------
(* Data model: Message, SystemProperties, the wire message *)

\* the fields of SystemProperties, in declaration order: name, wire key, type
SystemPropertyNames ==
    <<"LockedUntil", "SequenceNumber", "PartitionID", "PartitionKey", "EnqueuedTime",
      "DeadLetterSource", "ScheduledEnqueueTime", "EnqueuedSequenceNumber",
      "ViaPartitionKey">>
SystemPropertyTags ==
    <<"x-opt-locked-until", "x-opt-sequence-number", "x-opt-partition-id",
      "x-opt-partition-key", "x-opt-enqueued-time", "x-opt-deadletter-source",
      "x-opt-scheduled-enqueue-time", "x-opt-enqueue-sequence-number",
      "x-opt-via-partition-key">>
SystemPropertyTypes ==
    <<"time", "int64", "int16", "string", "time", "string", "time", "int64", "string">>

\* new(SystemProperties): every field nil
NewSystemProperties == [n \in {SystemPropertyNames[i] : i \in DOMAIN SystemPropertyNames} |-> None]

\* *SystemProperties as encodeStructureToMap sees it through reflection
SystemPropertiesStruct(sp) ==
    [kind |-> "ptrStruct",
     fields |-> [i \in DOMAIN SystemPropertyNames |->
                    Field(Some(<<SystemPropertyTags[i]>>), TRUE, "ptr",
                          sp[SystemPropertyNames[i]])]]

lockTokenName == "x-opt-lock-token"
ErrorInternalError == "amqp:internal-error"
ErrorPreconditionFailed == "amqp:precondition-failed"

\* &Message{Data: data}: every other field has its zero value
NewMessage(data) ==
    [ContentType |-> "", CorrelationID |-> "", Data |-> data, DeliveryCount |-> U32Zero,
     GroupID |-> None, GroupSequence |-> None, ID |-> "", Label |-> "", ReplyTo |-> "",
     ReplyToGroupID |-> "", To |-> "", TTL |-> None, LockToken |-> None,
     SystemProperties |-> None, UserProperties |-> None, message |-> None]

\* []byte(message): the bytes of the string's characters
ByteOf(c) == CASE c = "h" -> 104 [] c = "i" -> 105 [] OTHER -> 63
Bytes(str) == [i \in DOMAIN str |-> ByteOf(str[i])]
NewMessageFromString(str) == NewMessage(Bytes(str))

\* amqp.NewMessage(data): one data section, every block absent
amqpNewMessage(data) ==
    [Data |-> <<data>>, Header |-> None, Properties |-> None,
     ApplicationProperties |-> None, Annotations |-> None,
     DeliveryAnnotations |-> None, DeliveryTag |-> None]

\* new(amqp.MessageHeader)
NewMessageHeader == [DeliveryCount |-> U32Zero, TTL |-> 0]

annotationsFromMap(m) == [k \in DOMAIN m |-> m[k]]

----------------------------------------------------------------------------
(* Message Translator, outbound: Message.toMsg *)

\* amqpMsg := m.message; if amqpMsg == nil { amqpMsg = amqp.NewMessage(m.Data) }:
\* the contents of the wire message toMsg writes to
wireMessageOfRebuilt(m, heap) == amqpNewMessage(m.Data)
wireMessageOf(m, heap) ==
    IF IsNil(m.message) THEN amqpNewMessage(m.Data) ELSE Deref(heap[Deref(m.message)])

\* heap: the wire messages, by address.  The result: outcome ("ok", "error" or
\* "panic"), err, the returned *amqp.Message (None for nil) and the heap afterwards.
toMsg(m, heap) ==
    LET fresh == IsNil(m.message)
        addr == IF fresh THEN "sent" ELSE Deref(m.message)
        w0 == wireMessageOf(m, heap)
        w1 == [w0 EXCEPT !.Properties = Some(
                 [MessageID |-> StringValue(m.ID),
                  GroupID |-> IF ~IsNil(m.GroupID) THEN Deref(m.GroupID) ELSE "",
                  GroupSequence |-> IF ~IsNil(m.GroupSequence) THEN Deref(m.GroupSequence) ELSE 0,
                  CorrelationID |-> StringValue(m.CorrelationID),
                  ContentType |-> m.ContentType,
                  Subject |-> m.Label,
                  To |-> m.To,
                  ReplyTo |-> m.ReplyTo,
                  ReplyToGroupID |-> m.ReplyToGroupID])]
        w2 == IF MapLen(m.UserProperties) > 0
              THEN [w1 EXCEPT !.ApplicationProperties = Some(Deref(m.UserProperties))]
              ELSE w1
        enc == IF IsNil(m.SystemProperties)
               THEN [outcome |-> "ok", err |-> "", encoded |-> None]
               ELSE encodeStructureToMap(SystemPropertiesStruct(Deref(m.SystemProperties)))
        w3 == IF IsNil(m.SystemProperties) THEN w2
              ELSE [w2 EXCEPT !.Annotations = Some(annotationsFromMap(Deref(enc.encoded)))]
        w4 == IF IsNil(m.LockToken) THEN w3
              ELSE [w3 EXCEPT !.DeliveryAnnotations =
                      Some(MapPut(IF IsNil(@) THEN EmptyMap ELSE Deref(@),
                                  lockTokenName, Deref(m.LockToken)))]
        w5 == IF IsNil(m.TTL) THEN w4
              ELSE [w4 EXCEPT !.Header =
                      Some([(IF IsNil(@) THEN NewMessageHeader ELSE Deref(@))
                               EXCEPT !.TTL = Deref(m.TTL)])]
    IN  IF enc.outcome # "ok"
        THEN \* return nil, err: a reused wire message keeps what was written so far
             [outcome |-> enc.outcome, err |-> enc.err, ref |-> None,
              heap |-> IF fresh THEN heap ELSE [heap EXCEPT ![addr] = Some(w2)]]
        ELSE [outcome |-> "ok", err |-> "", ref |-> Some(addr),
              heap |-> [heap EXCEPT ![addr] = Some(w5)]]

----------------------------------------------------------------------------
(* Lock-Token Codec: lockTokenFromMessageTag *)

\* a Go slice is a sequence; s[i] of the source is At(s, i)
At(s, i) == s[i + 1]
SliceLen(s) == IF IsNil(s) THEN 0 ELSE Len(Deref(s))

\* swapIndex on a [16]byte, indexed from 0 as in the source
swapIndexWithoutTemporary(indexOne, indexTwo, array) ==
    [array EXCEPT ![indexOne] = array[indexTwo]]
swapIndex(indexOne, indexTwo, array) ==
    [array EXCEPT ![indexOne] = array[indexTwo], ![indexTwo] = array[indexOne]]

\* msg: the wire message.  The result: err, the lock token (None for nil) and
\* tag, the wire message's delivery tag after the call.
lockTokenFromMessageTag(msg) ==
    IF SliceLen(msg.DeliveryTag) # 16
    THEN [err |-> "the message contained an invalid delivery tag",
          token |-> None, tag |-> msg.DeliveryTag]
    ELSE LET lockTokenBytes == [i \in 0..15 |-> At(Deref(msg.DeliveryTag), i)]
             b1 == swapIndex(0, 3, lockTokenBytes)
             b2 == swapIndex(1, 2, b1)
             b3 == swapIndex(4, 5, b2)
             b4 == swapIndex(6, 7, b3)
         IN  [err |-> "", token |-> Some(b4), tag |-> msg.DeliveryTag]

----------------------------------------------------------------------------
(* Message Translator, inbound: messageFromAMQPMessage / newMessage *)

\* mapstructure.Decode(annotations, &msg.SystemProperties): every annotation whose
\* key is a field's tag is stored in that field; other keys are ignored; a value of
\* another type than the field's is an error.
DecodeSystemProperties(annotations) ==
    LET key(i) == <<SystemPropertyTags[i]>>
        has(i) == key(i) \in DOMAIN annotations
        fits(i) == annotations[key(i)].t \in {SystemPropertyTypes[i], "nil"}
        bad == {i \in DOMAIN SystemPropertyNames : has(i) /\ ~fits(i)}
        idx(n) == CHOOSE i \in DOMAIN SystemPropertyNames : SystemPropertyNames[i] = n
    IN  [err |-> IF bad = {} THEN "" ELSE "error(s) decoding",
         sp |-> Some([n \in DOMAIN NewSystemProperties |->
                        IF has(idx(n)) /\ fits(idx(n)) /\ annotations[key(idx(n))].t # "nil"
                        THEN Some(annotations[key(idx(n))])
                        ELSE None])]

\* &Message{Data: data, message: amqpMsg}
messageOfUnbound(data, amqpMsg) == NewMessage(data)
messageOf(data, amqpMsg) == [NewMessage(data) EXCEPT !.message = amqpMsg]

\* the guard of the lock-token step: a delivery tag that is present and not empty
hasDeliveryTagOfFullLength(w) == SliceLen(w.DeliveryTag) = 16
hasDeliveryTag(w) == ~IsNil(w.DeliveryTag) /\ SliceLen(w.DeliveryTag) > 0

\* The result: outcome "ok" (msg, nil), "error" (msg, err) or "panic"; msg is the
\* returned *Message (None when the call panicked).
newMessage(data, amqpMsg, heap) ==
    LET msg0 == messageOf(data, amqpMsg) IN
    IF IsNil(amqpMsg) THEN [outcome |-> "ok", err |-> "", msg |-> Some(msg0)]
    ELSE
    LET w == Deref(heap[Deref(amqpMsg)])
        hasProps == ~IsNil(w.Properties)
        p == Deref(w.Properties)
        msg1 == IF ~hasProps THEN msg0
                ELSE [msg0 EXCEPT
                        !.ID = IF p.MessageID.t = "string" THEN p.MessageID.v ELSE @,
                        !.GroupID = Some(p.GroupID),
                        !.GroupSequence = Some(p.GroupSequence),
                        !.CorrelationID = IF p.CorrelationID.t = "string"
                                          THEN p.CorrelationID.v ELSE @,
                        !.ContentType = p.ContentType,
                        !.Label = p.Subject,
                        !.To = p.To,
                        !.ReplyTo = p.ReplyTo,
                        !.ReplyToGroupID = p.ReplyToGroupID,
                        !.DeliveryCount = U32Inc(Deref(w.Header).DeliveryCount),
                        !.TTL = Some(Deref(w.Header).TTL)]
        msg2 == IF IsNil(w.ApplicationProperties) THEN msg1
                ELSE [msg1 EXCEPT !.UserProperties =
                        Some([k \in DOMAIN Deref(w.ApplicationProperties) |->
                                Deref(w.ApplicationProperties)[k]])]
        dec == DecodeSystemProperties(Deref(w.Annotations))
        msg3 == IF IsNil(w.Annotations) THEN msg2
                ELSE [msg2 EXCEPT !.SystemProperties = dec.sp]
        lt == lockTokenFromMessageTag(w)
    IN  IF hasProps /\ IsNil(w.Header)
        THEN \* amqpMsg.Header.DeliveryCount with a nil Header: nil pointer dereference
             [outcome |-> "panic", err |-> "", msg |-> None]
        ELSE IF ~IsNil(w.Annotations) /\ dec.err # ""
        THEN [outcome |-> "error", err |-> dec.err, msg |-> Some(msg3)]
        ELSE IF hasDeliveryTag(w)
        THEN IF lt.err # ""
             THEN [outcome |-> "error", err |-> lt.err, msg |-> Some(msg3)]
             ELSE [outcome |-> "ok", err |-> "",
                   msg |-> Some([msg3 EXCEPT !.LockToken = lt.token])]
        ELSE [outcome |-> "ok", err |-> "", msg |-> Some(msg3)]

\* msg.Data[0]: a nil msg, or one with no data section, panics
messageFromAMQPMessage(msg, heap) ==
    IF IsNil(msg) \/ Len(Deref(heap[Deref(msg)]).Data) = 0
    THEN [outcome |-> "panic", err |-> "", msg |-> None]
    ELSE newMessage(At(Deref(heap[Deref(msg)]).Data, 0), msg, heap)

----------------------------------------------------------------------------
(* The text-map carrier: Set, ForeachKey; ScheduleAt *)

ScheduleAt(m, t) ==
    LET sp == IF IsNil(m.SystemProperties) THEN NewSystemProperties
              ELSE Deref(m.SystemProperties)
        utcTime == UTC(t)
    IN  [m EXCEPT !.SystemProperties = Some([sp EXCEPT !.ScheduledEnqueueTime = Some(utcTime)])]

Set(m, key, value) ==
    LET up == IF IsNil(m.UserProperties) THEN EmptyMap ELSE Deref(m.UserProperties)
    IN  [m EXCEPT !.UserProperties = Some(MapPut(up, key, StringValue(value)))]

\* The loop of ForeachKey over the keys in the order the map iteration yields them.
\* failing: the keys for which the handler returns an error.  calls: the keys the
\* handler has been invoked with so far.
RECURSIVE ForeachFrom(_, _, _, _, _)
ForeachFrom(up, order, failing, i, calls) ==
    IF i > Len(order) THEN [outcome |-> "ok", calls |-> calls]
    ELSE IF up[order[i]].t # "string"
    THEN \* value.(string) on a value of another type panics
         [outcome |-> "panic", calls |-> calls]
    ELSE IF order[i] \in failing
    THEN [outcome |-> "error", calls |-> Append(calls, order[i])]
    ELSE ForeachFrom(up, order, failing, i + 1, Append(calls, order[i]))

ForeachKey(m, order, failing) ==
    ForeachFrom(IF IsNil(m.UserProperties) THEN EmptyMap ELSE Deref(m.UserProperties),
                order, failing, 1, <<>>)

\* the orders in which ranging over a map with these keys can yield them
Orders(keys) ==
    {o \in [1..Cardinality(keys) -> keys] : \A i, j \in DOMAIN o : i # j => o[i] # o[j]}

----------------------------------------------------------------------------
(* Disposition Actions *)

\* A DispositionAction is a closure: the outcome it was built for, the Message it
\* captured and the outcome's arguments.
Closure(kind, m, err, condition, info) ==
    [kind |-> kind, m |-> m, err |-> err, condition |-> condition, info |-> info]

Complete(m) == Closure("Complete", m, None, "", None)
Abandon(m) == Closure("Abandon", m, None, "", None)
DeadLetter(m, err) == Closure("DeadLetter", m, err, "", None)
\* info: a copy of additionalData made when the action is constructed (nil for nil)
DeadLetterWithInfo(m, err, condition, additionalData) ==
    Closure("DeadLetterWithInfo", m, err, condition,
            IF ~IsNil(additionalData)
            THEN Some([k \in DOMAIN Deref(additionalData) |-> Deref(additionalData)[k]])
            ELSE None)

\* a settlement call as the transport receives it
Settlement(on, call, deliveryFailed, undeliverableHere, condition, description, info) ==
    [on |-> on, call |-> call, deliveryFailed |-> deliveryFailed,
     undeliverableHere |-> undeliverableHere, condition |-> condition,
     description |-> description, info |-> info]

Accept(on) == Settlement(on, "accept", FALSE, FALSE, "", "", None)
Modify(on, deliveryFailed, undeliverableHere, messageAnnotations) ==
    Settlement(on, "modify", deliveryFailed, undeliverableHere, "", "", messageAnnotations)
Reject(on, condition, description, info) ==
    Settlement(on, "reject", FALSE, FALSE, condition, description, info)

\* the operation name of the tracing span each action starts
SpanName(kind) == "sb.Message." \o kind

\* the settlement calls the body of each closure makes on m.message
CompleteBody(a) == <<Accept(Deref(a.m.message))>>
AbandonBodyElsewhere(a) == <<Modify(Deref(a.m.message), TRUE, TRUE, None)>>
AbandonBody(a) == <<Modify(Deref(a.m.message), FALSE, FALSE, None)>>
DeadLetterBody(a) ==
    <<Reject(Deref(a.m.message), ErrorInternalError, Deref(a.err), None)>>
DeadLetterWithInfoBody(a) ==
    <<Reject(Deref(a.m.message), a.condition, Deref(a.err), a.info)>>

\* Invoking closure a with context ctx.  The context only starts the span; the
\* function has no result.  err.Error() on a nil error panics before any call.
RunAction(a, ctx) ==
    IF a.kind \in {"DeadLetter", "DeadLetterWithInfo"} /\ IsNil(a.err)
    THEN [span |-> SpanName(a.kind), outcome |-> "panic", calls |-> <<>>]
    ELSE [span |-> SpanName(a.kind), outcome |-> "returned",
          calls |-> CASE a.kind = "Complete" -> CompleteBody(a)
                      [] a.kind = "Abandon" -> AbandonBody(a)
                      [] a.kind = "DeadLetter" -> DeadLetterBody(a)
                      [] a.kind = "DeadLetterWithInfo" -> DeadLetterWithInfoBody(a)]

----------------------------------------------------------------------------
(* Bounds and inputs *)

MaxTTL == 1          \* the time-to-live values the application sets: 1..MaxTTL
MaxCount == 5        \* the small wire delivery counts: 0..MaxCount
MaxSeed == 1         \* delivery tags are generated from the seeds 0..MaxSeed
MaxActions == 2      \* disposition actions constructed per delivery
MaxSettled == 2      \* invocations per delivery
MaxFields == 2       \* fields of the structures given to the projector

Payloads == {<<7>>}
Strings == {<<"h", "i">>}
ContentFields == {"ContentType", "CorrelationID", "Label", "To", "ReplyTo", "ReplyToGroupID"}
Texts == {"", "a"}
Keys == {"k1", "k2"}
Times == {TimeValue("noon", "Local")}
Contexts == {"live", "cancelled"}

\* a delivery tag of n bytes, all different
TagOfLen(n, seed) == Some([i \in 1..n |-> (seed + 7 * i) % 256])
TagLengths == {0, 1, 15, 16, 17}
DeliveryTags == {None} \cup {TagOfLen(n, seed) : n \in TagLengths, seed \in 0..MaxSeed}

\* wire delivery counts: the small ones, the last before a carry into the upper
\* half, and the largest uint32
Counts == {U32(0, c) : c \in 0..MaxCount} \cup {U32(0, Half - 1), U32Max}

BrokerProperties(id) ==
    [MessageID |-> id, GroupID |-> "g", GroupSequence |-> 1,
     CorrelationID |-> id, ContentType |-> "text/plain", Subject |-> "subject",
     To |-> "to", ReplyTo |-> "reply", ReplyToGroupID |-> "rg"]

\* the wire messages the transport may hand over
ReceiveWires ==
    [Data : {<<>>, << <<7>> >>, << <<7>>, <<8>> >>},
     Header : {None} \cup {Some([DeliveryCount |-> c, TTL |-> 0]) : c \in Counts},
     Properties : {None, Some(BrokerProperties(StringValue("id"))),
                   Some(BrokerProperties(Value("uuid", "id")))},
     ApplicationProperties : {None, Some(MapPut(EmptyMap, "k1", Value("int", "42")))},
     Annotations : {None,
                    Some(MapPut(EmptyMap, <<"x-opt-sequence-number">>, Value("int64", "9"))),
                    Some(MapPut(EmptyMap, <<"x-opt-sequence-number">>, StringValue("nine")))},
     DeliveryAnnotations : {None},
     DeliveryTag : DeliveryTags]

\* two of them: a well-formed delivery, and one with neither properties nor tag
SampleWires ==
    {w \in ReceiveWires :
        /\ w.Data = << <<7>> >>
        /\ w.Header = Some([DeliveryCount |-> U32Zero, TTL |-> 0])
        /\ w.ApplicationProperties = None
        /\ w.Annotations = None
        /\ \/ w.Properties = Some(BrokerProperties(StringValue("id")))
              /\ w.DeliveryTag = TagOfLen(16, 0)
           \/ w.Properties = None /\ w.DeliveryTag = None}

\* deliveries a receiver sends on: one or two data sections, with and without
\* properties, application properties, annotations and delivery tag
ResendWires ==
    {w \in ReceiveWires :
        /\ Len(w.Data) > 0
        /\ w.Header = Some([DeliveryCount |-> U32Zero, TTL |-> 0])
        /\ w.Properties \in {None, Some(BrokerProperties(StringValue("id")))}
        /\ w.Annotations \in
              {None, Some(MapPut(EmptyMap, <<"x-opt-sequence-number">>, Value("int64", "9")))}
        /\ w.DeliveryTag \in {None, TagOfLen(16, 0)}}
ResendPayloads == {<<7>>, <<9>>}

Errors == {None, Some("boom")}
Conditions == {ErrorInternalError, ErrorPreconditionFailed}
AdditionalData == {None, Some(MapPut(EmptyMap, "reason", "expired"))}

\* the structure fields given to the projector
TagInputs ==
    {None, Some(<<"k1">>), Some(<<" ", "k1", " ">>), Some(<<"k2", ",", "persistempty">>),
     Some(<<"k2", ",", "bogus">>)}
FieldInputs ==
    {Field(tag, TRUE, "ptr", val) :
        tag \in TagInputs,
        val \in {None, Some(Value("int", "0")), Some(Value("int", "7"))}}
    \cup
    {Field(tag, TRUE, val.t, Some(val)) :
        tag \in TagInputs,
        val \in {Value("int", "0"), Value("int", "7"), Value("string", ""),
                 Value("slice", "")}}
    \cup
    {Field(tag, FALSE, "ptr", val) :
        tag \in {Some(<<"k1">>), Some(<<"k2", ",", "bogus">>)},
        val \in {None, Some(Value("int", "7"))}}
    \cup
    {Field(Some(<<"k1">>), FALSE, "int", Some(Value("int", "7")))}
RECURSIVE SeqsUpTo(_, _)
SeqsUpTo(S, n) ==
    IF n = 0 THEN {<<>>}
    ELSE LET shorter == SeqsUpTo(S, n - 1)
         IN  shorter \cup {Append(q, x) : q \in {r \in shorter : Len(r) = n - 1}, x \in S}
StructInputs ==
    {[kind |-> "ptrStruct", fields |-> fs] : fs \in SeqsUpTo(FieldInputs, MaxFields)}
    \cup {[kind |-> "ptrOther", fields |-> <<>>], [kind |-> "value", fields |-> <<>>]}

----------------------------------------------------------------------------
(* State and operations *)

EmptyHeap == [sent |-> None, delivered |-> None]

Init ==
    /\ wires = EmptyHeap
    /\ app = None
    /\ out = None
    /\ rcv = None
    /\ codec = None
    /\ actions = <<>>
    /\ settled = <<>>
    /\ invoked = None
    /\ structIn = None
    /\ encoded = None
    /\ walk = None

receiveVars == <<codec, actions, settled, invoked>>
projectorVars == <<structIn, encoded>>

\* what was translated from the wire message at addr is no longer followed
Forget(r, addr) == IF ~IsNil(r) /\ Deref(r).of = addr THEN None ELSE r

\* The application has a Message m: a new one, or the one it had, modified.  The
\* model follows the wire message toMsg returned for the Message as it now is, so
\* the results of earlier calls are dropped.
Hold(m) ==
    /\ app' = Some(m)
    /\ out' = None
    /\ walk' = None
    /\ wires' = [wires EXCEPT !.sent = None]
    /\ rcv' = Forget(rcv, "sent")
    /\ UNCHANGED <<receiveVars, projectorVars>>

CallNewMessage(data) == Hold(NewMessage(data))

CallNewMessageFromString(str) == Hold(NewMessageFromString(str))

\* the application writes an exported content field
AssignField(f, v) ==
    /\ ~IsNil(app)
    /\ Hold([Deref(app) EXCEPT ![f] = v])

AssignTTL(d) ==
    /\ ~IsNil(app)
    /\ Hold([Deref(app) EXCEPT !.TTL = Some(d)])

\* the application stores a value of its own in UserProperties
AssignUserProperty(key, val) ==
    /\ ~IsNil(app)
    /\ Hold([Deref(app) EXCEPT !.UserProperties =
               Some(MapPut(IF IsNil(@) THEN EmptyMap ELSE Deref(@), key, val))])

CallSet(key, value) ==
    /\ ~IsNil(app)
    /\ Hold(Set(Deref(app), key, value))

CallScheduleAt(t) ==
    /\ ~IsNil(app)
    /\ Hold(ScheduleAt(Deref(app), t))

CallToMsg ==
    /\ ~IsNil(app)
    /\ LET r == toMsg(Deref(app), wires)
       IN  /\ out' = Some([outcome |-> r.outcome, err |-> r.err, ref |-> r.ref])
           /\ wires' = r.heap
    /\ rcv' = Forget(rcv, "sent")
    /\ UNCHANGED <<app, walk, receiveVars, projectorVars>>

\* the transport hands over wire message w; the model follows one delivery
Deliver(w) ==
    /\ IsNil(wires.delivered)
    /\ wires' = [wires EXCEPT !.delivered = Some(w)]
    /\ UNCHANGED <<app, out, rcv, walk, receiveVars, projectorVars>>

\* inbound translation of the wire message at addr
CallInbound(addr) ==
    /\ ~IsNil(wires[addr])
    /\ LET r == messageFromAMQPMessage(Some(addr), wires)
       IN  rcv' = Some([of |-> addr, outcome |-> r.outcome, err |-> r.err, msg |-> r.msg])
    /\ UNCHANGED <<wires, app, out, walk, receiveVars, projectorVars>>

\* the codec applied to the delivered wire message
CallLockToken ==
    /\ ~IsNil(wires.delivered)
    /\ LET r == lockTokenFromMessageTag(Deref(wires.delivered))
       IN  /\ codec' = Some([err |-> r.err, token |-> r.token])
           /\ wires' = [wires EXCEPT !.delivered = Some([Deref(@) EXCEPT !.DeliveryTag = r.tag])]
    /\ UNCHANGED <<app, out, rcv, walk, actions, settled, invoked, projectorVars>>

\* the received Message the dispositions are constructed on
Received == Deref(Deref(rcv).msg)
HasReceived ==
    /\ ~IsNil(rcv)
    /\ Deref(rcv).outcome = "ok"
    /\ Deref(rcv).of = "delivered"

Construct(a) ==
    /\ HasReceived
    /\ Len(actions) < MaxActions
    /\ actions' = Append(actions, a)
    /\ UNCHANGED <<wires, app, out, rcv, walk, codec, settled, invoked, projectorVars>>

CallComplete == Construct(Complete(Received))
CallAbandon == Construct(Abandon(Received))
CallDeadLetter(err) == Construct(DeadLetter(Received, err))
CallDeadLetterWithInfo(err, condition, additionalData) ==
    Construct(DeadLetterWithInfo(Received, err, condition, additionalData))

\* the receiver invokes the i-th action with context ctx; returned: what the
\* invocation gave back to its caller (a DispositionAction has no result)
InvokeAction(i, ctx) ==
    /\ i \in DOMAIN actions
    /\ Len(settled) < MaxSettled
    /\ LET r == RunAction(actions[i], ctx)
       IN  /\ settled' = settled \o r.calls
           /\ invoked' = Some([action |-> i, ctx |-> ctx, span |-> r.span,
                               outcome |-> r.outcome, issued |-> Len(r.calls),
                               returned |-> None])
    /\ UNCHANGED <<wires, app, out, rcv, walk, codec, actions, projectorVars>>

\* the caller has a structure to project; the model follows one
Provide(structPointer) ==
    /\ IsNil(structIn)
    /\ structIn' = Some(structPointer)
    /\ UNCHANGED <<wires, app, out, rcv, walk, receiveVars, encoded>>

CallEncode ==
    /\ ~IsNil(structIn)
    /\ encoded' = Some(encodeStructureToMap(Deref(structIn)))
    /\ UNCHANGED <<wires, app, out, rcv, walk, receiveVars, structIn>>

\* ForeachKey with a handler that fails on the keys in failing; order is the order
\* in which the map iteration yields the keys
CallForeachKey(order, failing) ==
    /\ ~IsNil(app)
    /\ LET r == ForeachKey(Deref(app), order, failing)
       IN  walk' = Some([order |-> order, failing |-> failing,
                         outcome |-> r.outcome, calls |-> r.calls])
    /\ UNCHANGED <<wires, app, out, rcv, receiveVars, projectorVars>>

\* The application has changed the received Message into m; the result of an
\* earlier toMsg is dropped.
Keep(m) ==
    /\ HasReceived
    /\ rcv' = Some([Deref(rcv) EXCEPT !.msg = Some(m)])
    /\ out' = None
    /\ UNCHANGED <<wires, app, walk, receiveVars, projectorVars>>

\* the application writes Data of the received Message
AssignReceivedData(data) == HasReceived /\ Keep([Received EXCEPT !.Data = data])

\* the application sets UserProperties or SystemProperties of the received Message to nil
ResetReceived(f) == HasReceived /\ Keep([Received EXCEPT ![f] = None])

CallSetReceived(key, value) == HasReceived /\ Keep(Set(Received, key, value))

CallScheduleAtReceived(t) == HasReceived /\ Keep(ScheduleAt(Received, t))

\* toMsg of the received Message, which wraps the delivered wire message
CallToMsgReceived ==
    /\ HasReceived
    /\ LET r == toMsg(Received, wires)
       IN  /\ out' = Some([outcome |-> r.outcome, err |-> r.err, ref |-> r.ref])
           /\ wires' = r.heap
    /\ UNCHANGED <<app, rcv, walk, receiveVars, projectorVars>>

UserKeys == IF IsNil(app) \/ IsNil(Deref(app).UserProperties) THEN {}
            ELSE DOMAIN Deref(Deref(app).UserProperties)

----------------------------------------------------------------------------
(* Specifications *)

\* the send path, with the inbound translation of what was sent and of a delivery
Next ==
    \/ \E data \in Payloads : CallNewMessage(data)
    \/ \E str \in Strings : CallNewMessageFromString(str)
    \/ \E f \in ContentFields, v \in Texts : AssignField(f, v)
    \/ \E d \in 1..MaxTTL : AssignTTL(d)
    \/ \E key \in Keys : CallSet(key, "a")
    \/ AssignUserProperty("k1", Value("int", "42"))
    \/ \E t \in Times : CallScheduleAt(t)
    \/ CallToMsg
    \/ \E w \in SampleWires : Deliver(w)
    \/ \E addr \in DOMAIN wires : CallInbound(addr)

Spec == Init /\ [][Next]_vars

\* the receive path: every wire message, inbound translation and the codec
NextReceive ==
    \/ \E w \in ReceiveWires : Deliver(w)
    \/ CallInbound("delivered")
    \/ CallLockToken

SpecReceive == Init /\ [][NextReceive]_vars

\* a delivery, its translation, and the disposition of the received Message
NextDisposition ==
    \/ \E w \in SampleWires : Deliver(w)
    \/ CallInbound("delivered")
    \/ CallComplete
    \/ CallAbandon
    \/ \E err \in Errors : CallDeadLetter(err)
    \/ \E err \in Errors, c \in Conditions, d \in AdditionalData :
          CallDeadLetterWithInfo(err, c, d)
    \/ \E i \in 1..MaxActions, ctx \in Contexts : InvokeAction(i, ctx)

SpecDisposition == Init /\ [][NextDisposition]_vars

\* the structure projector on every input structure
NextProjector ==
    \/ \E sp \in StructInputs : Provide(sp)
    \/ CallEncode

SpecProjector == Init /\ [][NextProjector]_vars

\* the text-map carrier
NextCarrier ==
    \/ \E data \in Payloads : CallNewMessage(data)
    \/ \E key \in Keys \cup {"k3"}, value \in {"a"} : CallSet(key, value)
    \/ \E key \in Keys : AssignUserProperty(key, Value("int", "42"))
    \/ \E order \in Orders(UserKeys), failing \in SUBSET UserKeys :
          CallForeachKey(order, failing)

SpecCarrier == Init /\ [][NextCarrier]_vars

\* outbound translation of a Message built by the application and of a received
\* Message the application sends on
NextResend ==
    \/ \E data \in Payloads : CallNewMessage(data)
    \/ \E str \in Strings : CallNewMessageFromString(str)
    \/ CallToMsg
    \/ \E w \in ResendWires : Deliver(w)
    \/ CallInbound("delivered")
    \/ \E data \in ResendPayloads : AssignReceivedData(data)
    \/ \E f \in {"UserProperties", "SystemProperties"} : ResetReceived(f)
    \/ \E key \in Keys : CallSetReceived(key, "a")
    \/ \E t \in Times : CallScheduleAtReceived(t)
    \/ CallToMsgReceived

SpecResend == Init /\ [][NextResend]_vars

----------------------------------------------------------------------------
(* Claims *)

\* the content fields of a Message; the user properties by their contents
UserPropertiesOf(m) == IF IsNil(m.UserProperties) THEN EmptyMap ELSE Deref(m.UserProperties)
ContentOf(m) ==
    <<m.ContentType, m.CorrelationID, m.Label, m.To, m.ReplyTo, m.ReplyToGroupID,
      UserPropertiesOf(m)>>

\* the wire message toMsg returned for app has been translated back
RoundTripDone ==
    /\ ~IsNil(app)
    /\ ~IsNil(out)
    /\ ~IsNil(rcv)
    /\ Deref(rcv).of = "sent"

\* C1: for a Message built by the application, with any content fields and user
\* properties set, its TTL set or unset (and no system properties), the inbound
\* translation of what toMsg returned completes without failure and yields a
\* Message with the same content fields.
C1_RoundTrip ==
    (RoundTripDone /\ IsNil(Deref(app).SystemProperties)) =>
        /\ Deref(out).outcome = "ok"
        /\ Deref(rcv).outcome = "ok"
        /\ ContentOf(Deref(Deref(rcv).msg)) = ContentOf(Deref(app))

\* C1 with the TTL set: the round trip the code completes
C1_RoundTripWithTTL ==
    (RoundTripDone /\ ~IsNil(Deref(app).TTL)) =>
        /\ Deref(out).outcome = "ok"
        /\ Deref(rcv).outcome = "ok"
        /\ ContentOf(Deref(Deref(rcv).msg)) = ContentOf(Deref(app))

\* the settlement each kind of action is to issue, on the wire message of the
\* Message it was constructed on
ExpectedSettlement(a) ==
    LET on == Deref(a.m.message) IN
    CASE a.kind = "Complete" -> Settlement(on, "accept", FALSE, FALSE, "", "", None)
      [] a.kind = "Abandon" -> Settlement(on, "modify", FALSE, FALSE, "", "", None)
      [] a.kind = "DeadLetter" ->
            Settlement(on, "reject", FALSE, FALSE, "amqp:internal-error", Deref(a.err), None)
      [] a.kind = "DeadLetterWithInfo" ->
            Settlement(on, "reject", FALSE, FALSE, a.condition, Deref(a.err), a.info)

\* an action whose error argument, if it takes one, is an error (not nil)
HasItsError(a) == a.kind \in {"DeadLetter", "DeadLetterWithInfo"} => ~IsNil(a.err)

\* the info of a rejection carries every key/value of the caller's additionalData
CarriesAll(info, additionalData) ==
    IF IsNil(additionalData) THEN IsNil(info)
    ELSE /\ ~IsNil(info)
         /\ DOMAIN Deref(info) = DOMAIN Deref(additionalData)
         /\ \A k \in DOMAIN Deref(additionalData) : Deref(info)[k] = Deref(additionalData)[k]

\* C2: constructing a disposition action issues no settlement call, and the action
\* keeps the caller's error, condition and info; invoking an action issues exactly
\* one settlement call, on the wire message of the Message it was constructed on:
\* accept for Complete, modify(false, false, no info) for Abandon, reject with
\* amqp:internal-error and the error's text for DeadLetter, reject with the
\* caller's condition, the error's text and the caller's info for DeadLetterWithInfo.
C2_Settlement ==
    [][ /\ (actions' # actions) => settled' = settled
        /\ \A err \in Errors, c \in Conditions, d \in AdditionalData :
              (HasReceived /\ CallDeadLetterWithInfo(err, c, d)) =>
                 LET a == actions'[Len(actions')]
                 IN  /\ a.kind = "DeadLetterWithInfo"
                     /\ a.err = err
                     /\ a.condition = c
                     /\ CarriesAll(a.info, d)
                     /\ a.m.message = Some("delivered")
        /\ \A err \in Errors :
              (HasReceived /\ CallDeadLetter(err)) =>
                 LET a == actions'[Len(actions')]
                 IN  a.kind = "DeadLetter" /\ a.err = err /\ a.m.message = Some("delivered")
        /\ (<<invoked, settled>>' # <<invoked, settled>>) =>
              LET a == actions[Deref(invoked').action]
              IN  HasItsError(a) => settled' = Append(settled, ExpectedSettlement(a))
      ]_vars

\* C2 witness: an Abandon and a DeadLetterWithInfo(precondition-failed,
\* {reason: expired}) have both been invoked and settled
C2_Witness ==
    /\ ~IsNil(invoked)
    /\ \E i \in DOMAIN settled :
          /\ settled[i].call = "modify"
          /\ settled[i].on = "delivered"
    /\ \E i \in DOMAIN settled :
          /\ settled[i].call = "reject"
          /\ settled[i].condition = "amqp:precondition-failed"
          /\ settled[i].description = "boom"
          /\ settled[i].info = Some(MapPut(EmptyMap, "reason", "expired"))

\* C3: an action invoked with a cancelled context does not carry out the
\* settlement, and gives the failure back to its caller.
C3_CancelledFails ==
    (~IsNil(invoked) /\ Deref(invoked).ctx = "cancelled") =>
        /\ Deref(invoked).issued = 0
        /\ ~IsNil(Deref(invoked).returned)

\* the delivered wire message, and the result of translating it
Delivered == Deref(wires.delivered)
Translated ==
    /\ ~IsNil(wires.delivered)
    /\ ~IsNil(rcv)
    /\ Deref(rcv).of = "delivered"

\* C4: for a 16-byte delivery tag t, lockTokenFromMessageTag returns u with
\* u[0]=t[3], u[3]=t[0], u[1]=t[2], u[2]=t[1], u[4]=t[5], u[5]=t[4], u[6]=t[7],
\* u[7]=t[6] and u[i]=t[i] for i in 8..15, and leaves the wire message's delivery
\* tag as it was.
C4_LockToken ==
    [][ (IsNil(codec) /\ ~IsNil(codec') /\ SliceLen(Delivered.DeliveryTag) = 16) =>
           LET t == Deref(Delivered.DeliveryTag)
               u == Deref(Deref(codec').token)
           IN  /\ Deref(codec').err = ""
               /\ ~IsNil(Deref(codec').token)
               /\ DOMAIN u = 0..15
               /\ u[0] = At(t, 3) /\ u[3] = At(t, 0)
               /\ u[1] = At(t, 2) /\ u[2] = At(t, 1)
               /\ u[4] = At(t, 5) /\ u[5] = At(t, 4)
               /\ u[6] = At(t, 7) /\ u[7] = At(t, 6)
               /\ \A i \in 8..15 : u[i] = At(t, i)
               /\ Deref(wires'.delivered).DeliveryTag = Delivered.DeliveryTag
      ]_vars

\* C4 witness: the codec has produced a lock token whose first eight bytes differ
\* from the tag's, from a tag that is still in the wire message
C4_Witness ==
    /\ ~IsNil(wires.delivered)
    /\ ~IsNil(codec)
    /\ ~IsNil(Deref(codec).token)
    /\ SliceLen(Delivered.DeliveryTag) = 16
    /\ \A i \in 0..7 : Deref(Deref(codec).token)[i] # At(Deref(Delivered.DeliveryTag), i)

\* inbound translation of this wire message gets as far as the lock-token step
ReachesLockTokenStep(w) ==
    /\ Len(w.Data) > 0
    /\ ~(~IsNil(w.Properties) /\ IsNil(w.Header))
    /\ IsNil(w.Annotations) \/ DecodeSystemProperties(Deref(w.Annotations)).err = ""

InvalidDeliveryTag == "the message contained an invalid delivery tag"

\* C5 as stated: inbound translation of a wire message whose delivery tag is
\* present but not 16 bytes long (0, 1, 15, 17 bytes) returns the
\* invalid-delivery-tag error and never succeeds with LockToken unset; a tag of 16
\* bytes is accepted and populates LockToken.
C5_AnyOtherLengthFails ==
    (Translated /\ ReachesLockTokenStep(Delivered) /\ ~IsNil(Delivered.DeliveryTag)) =>
        IF SliceLen(Delivered.DeliveryTag) = 16
        THEN /\ Deref(rcv).outcome = "ok"
             /\ ~IsNil(Deref(Deref(rcv).msg).LockToken)
        ELSE /\ Deref(rcv).outcome = "error"
             /\ Deref(rcv).err = InvalidDeliveryTag

\* C5 amended: inbound translation of a wire message whose delivery tag has a
\* length other than 0 and 16 returns the invalid-delivery-tag error; a tag of 16
\* bytes is accepted and populates LockToken; an empty tag is treated like an
\* absent one: translation succeeds and leaves LockToken unset.  The codec itself,
\* called directly, rejects every length but 16, 0 included.
C5_NonEmptyOtherLengthFails ==
    /\ (Translated /\ ReachesLockTokenStep(Delivered)) =>
          IF SliceLen(Delivered.DeliveryTag) = 16
          THEN /\ Deref(rcv).outcome = "ok"
               /\ ~IsNil(Deref(Deref(rcv).msg).LockToken)
          ELSE IF SliceLen(Delivered.DeliveryTag) = 0
          THEN /\ Deref(rcv).outcome = "ok"
               /\ IsNil(Deref(Deref(rcv).msg).LockToken)
          ELSE /\ Deref(rcv).outcome = "error"
               /\ Deref(rcv).err = InvalidDeliveryTag
    /\ (~IsNil(wires.delivered) /\ ~IsNil(codec)) =>
          (Deref(codec).err = InvalidDeliveryTag <=> SliceLen(Delivered.DeliveryTag) # 16)

\* C5 witness: a delivery tag of 17 bytes has made inbound translation fail
C5_Witness ==
    /\ Translated
    /\ ReachesLockTokenStep(Delivered)
    /\ SliceLen(Delivered.DeliveryTag) = 17
    /\ Deref(rcv).outcome = "error"

\* y is x + 1, as a number
IsSuccessor(y, x) ==
    \/ x.lo < Half - 1 /\ y = U32(x.hi, x.lo + 1)
    \/ x.lo = Half - 1 /\ x.hi < Half - 1 /\ y = U32(x.hi + 1, 0)

\* C6: the DeliveryCount of a Message produced by inbound translation is the wire
\* header's delivery count plus one, and so never 0, for every value of the wire
\* count and with or without a properties block.
C6_DeliveryCount ==
    (Translated /\ ~IsNil(Delivered.Header) /\ ~IsNil(Deref(rcv).msg)) =>
        /\ IsSuccessor(Deref(Deref(rcv).msg).DeliveryCount, Deref(Delivered.Header).DeliveryCount)
        /\ Deref(Deref(rcv).msg).DeliveryCount # U32Zero

\* C6 where the code does count: with a properties block and a wire count below
\* the largest uint32
C6_DeliveryCountWithProperties ==
    (Translated /\ ~IsNil(Delivered.Header) /\ ~IsNil(Deref(rcv).msg)
       /\ ~IsNil(Delivered.Properties) /\ Deref(Delivered.Header).DeliveryCount # U32Max) =>
        IsSuccessor(Deref(Deref(rcv).msg).DeliveryCount, Deref(Delivered.Header).DeliveryCount)

\* C7: inbound translation of a wire message without a data section returns an
\* error to its caller: it does not crash, and it returns no Message.
C7_EmptyPayload ==
    (Translated /\ Len(Delivered.Data) = 0) =>
        /\ Deref(rcv).outcome = "error"
        /\ IsNil(Deref(rcv).msg)

\* the structure given to the projector, and what the projector returned
Projected == ~IsNil(structIn) /\ ~IsNil(encoded)
StructFields == Deref(structIn).fields
EncodedMap == Deref(Deref(encoded).encoded)

Tagged(f) == ~IsNil(f.tag)
TagOf(f) == Deref(parseMapStructureTag(f.tag).tag)
IsZeroValue(v) == v.v = (IF v.t = "int" THEN "0" ELSE "")
\* the policy: a set optional, a plain value that is not zero, or PersistEmpty
Emits(f) ==
    \/ f.kind = "ptr" /\ ~IsNil(f.val)
    \/ f.kind # "ptr" /\ ~IsZeroValue(Deref(f.val))
    \/ TagOf(f).PersistEmpty
EmittedValue(f) ==
    IF f.kind = "ptr" THEN (IF IsNil(f.val) THEN NilValue ELSE Deref(f.val))
    ELSE Deref(f.val)

\* a structure the policy speaks of: the tags of the fields in fs parse, their
\* keys differ, and their plain values can be compared with the zero value
Regular(fs) ==
    /\ Deref(structIn).kind = "ptrStruct"
    /\ \A i \in fs :
          /\ parseMapStructureTag(StructFields[i].tag).err = ""
          /\ Comparable(StructFields[i].kind)
    /\ \A i, j \in fs : i # j => TagOf(StructFields[i]).Name # TagOf(StructFields[j]).Name

\* the map holds a key exactly for the fields in fs that emit, with their values
HoldsExactly(fs) ==
    /\ Deref(encoded).outcome = "ok"
    /\ \A i \in fs :
          /\ TagOf(StructFields[i]).Name \in DOMAIN EncodedMap <=> Emits(StructFields[i])
          /\ Emits(StructFields[i]) =>
                EncodedMap[TagOf(StructFields[i]).Name] = EmittedValue(StructFields[i])
    /\ DOMAIN EncodedMap \subseteq {TagOf(StructFields[i]).Name : i \in fs}

TaggedFields == {i \in DOMAIN StructFields : Tagged(StructFields[i])}
TaggedExportedFields == {i \in TaggedFields : StructFields[i].exported}

Walked == ~IsNil(app) /\ ~IsNil(walk)
WalkedProperties == UserPropertiesOf(Deref(app))
SomeNotString == \E k \in DOMAIN WalkedProperties : WalkedProperties[k].t # "string"

\* once a failure has occurred the handler is invoked for no further key: the
\* handler's calls are the keys before the first value that is not a string, up to
\* and including the first key the handler fails on
StopsAtFailure ==
    LET w == Deref(walk)
        stops == {i \in DOMAIN w.order :
                     WalkedProperties[w.order[i]].t # "string" \/ w.order[i] \in w.failing}
        first == CHOOSE i \in stops : \A j \in stops : i <= j
    IN  IF stops = {} THEN w.calls = w.order
        ELSE w.calls = SubSeq(w.order, 1,
                              IF WalkedProperties[w.order[first]].t # "string"
                              THEN first - 1 ELSE first)

\* C9: ForeachKey returns an error whenever a user-property value is not a string;
\* after a failure the handler is invoked for no further key; when every value is a
\* string and the handler never fails, the handler is invoked once per key and
\* ForeachKey returns no error.
C9_Foreach ==
    Walked =>
        /\ SomeNotString => Deref(walk).outcome = "error"
        /\ StopsAtFailure
        /\ (~SomeNotString /\ Deref(walk).failing = {}) =>
              /\ Deref(walk).outcome = "ok"
              /\ Len(Deref(walk).calls) = Cardinality(DOMAIN WalkedProperties)
              /\ {Deref(walk).calls[i] : i \in DOMAIN Deref(walk).calls} = DOMAIN WalkedProperties

\* C9 without its first part: what the code does do
C9_ForeachStopsAndCompletes ==
    Walked =>
        /\ StopsAtFailure
        /\ (~SomeNotString /\ Deref(walk).failing = {}) =>
              /\ Deref(walk).outcome = "ok"
              /\ Len(Deref(walk).calls) = Cardinality(DOMAIN WalkedProperties)
              /\ {Deref(walk).calls[i] : i \in DOMAIN Deref(walk).calls} = DOMAIN WalkedProperties

\* C10: the Message the application built has neither LockToken nor wire-message
\* reference, whatever ScheduleAt, Set and toMsg calls it has been through; a
\* Message produced by inbound translation refers to the wire message that was
\* translated, and only such a Message has a LockToken.
C10_SendPath ==
    /\ ~IsNil(app) =>
          /\ IsNil(Deref(app).LockToken)
          /\ IsNil(Deref(app).message)
    /\ (~IsNil(rcv) /\ ~IsNil(Deref(rcv).msg)) =>
          Deref(Deref(rcv).msg).message = Some(Deref(rcv).of)

\* C10 witness: the application's Message has been through ScheduleAt, Set and
\* toMsg, and inbound translation of a delivery has produced a Message with a
\* LockToken and the reference to that delivery
C10_Witness ==
    /\ ~IsNil(app)
    /\ ~IsNil(Deref(app).SystemProperties)
    /\ ~IsNil(Deref(app).UserProperties)
    /\ ~IsNil(out)
    /\ Deref(out).ref = Some("sent")
    /\ ~IsNil(rcv)
    /\ Deref(rcv).of = "delivered"
    /\ Deref(rcv).outcome = "ok"
    /\ ~IsNil(Deref(Deref(rcv).msg).LockToken)
    /\ Deref(Deref(rcv).msg).message = Some("delivered")

\* C11: toMsg of a Message that wraps a wire message returns that wire message and
\* allocates none; its data sections and delivery tag are as before whatever the
\* Message's Data holds, its application properties are as before when the
\* Message has no user properties, and its annotations are as before when the
\* Message's SystemProperties is nil.  toMsg of a Message that wraps none returns
\* a wire message of its own whose one data section is the Message's Data, and
\* leaves the delivered wire message alone.
C11_ToMsgReuse ==
    [][ /\ CallToMsgReceived =>
              LET m == Received
                  before == Deref(wires[Deref(m.message)])
                  after == Deref(wires'[Deref(m.message)])
              IN  /\ Deref(out').outcome = "ok"
                  /\ Deref(out').ref = m.message
                  /\ wires'.sent = wires.sent
                  /\ after.Data = before.Data
                  /\ after.DeliveryTag = before.DeliveryTag
                  /\ (DOMAIN UserPropertiesOf(m) = {}) =>
                        after.ApplicationProperties = before.ApplicationProperties
                  /\ IsNil(m.SystemProperties) =>
                        after.Annotations = before.Annotations
        /\ (CallToMsg /\ IsNil(Deref(app).message)) =>
              /\ Deref(out').outcome = "ok"
              /\ Deref(out').ref = Some("sent")
              /\ Deref(wires'.sent).Data = <<Deref(app).Data>>
              /\ IsNil(Deref(wires'.sent).DeliveryTag)
              /\ wires'.delivered = wires.delivered
      ]_vars

\* C11 witness: toMsg has returned the delivered wire message for a received
\* Message whose Data is no longer the payload, whose user properties and
\* SystemProperties were reset while the wire message has application properties,
\* annotations, two data sections and a delivery tag; and toMsg has allocated a
\* wire message for the Message the application built
C11_Witness ==
    /\ HasReceived
    /\ ~IsNil(out)
    /\ Deref(out).ref = Some("delivered")
    /\ Received.message = Some("delivered")
    /\ Len(Delivered.Data) = 2
    /\ Received.Data # At(Delivered.Data, 0)
    /\ ~IsNil(Delivered.DeliveryTag)
    /\ IsNil(Received.UserProperties)
    /\ ~IsNil(Delivered.ApplicationProperties)
    /\ IsNil(Received.SystemProperties)
    /\ ~IsNil(Delivered.Annotations)
    /\ ~IsNil(app)
    /\ ~IsNil(wires.sent)
    /\ Deref(wires.sent).Data = <<Deref(app).Data>>

====
